---- MODULE Spec2Model ----
(***************************************************************************)
(* A model of tap-zendesk-sell: the events stream's sync protocol          *)
(* (start / fetch / ack with a device identity kept in the run state),     *)
(* the link-based pagination of ZendeskSellStream.request_records, the     *)
(* page-number loops of the per-resource streams, and the discovery of     *)
(* custom fields by ZendeskSellStream._update_schema.                      *)
(***************************************************************************)
EXTENDS Integers, Sequences, FiniteSets, TLC

VARIABLES
    \* ---- events stream (streams/sync.py, streams/events.py, streams.py) ----
    variant,        \* "sync": SyncStream / streams/events.py; "streams": streams.py EventsStream
    config_uuid,    \* self.config.get("device_uuid")
    state_uuid,     \* self.get_context_state(None).get("device_uuid")
    pc,             \* position of the get_records generator
    session,        \* session["id"] / session_id
    finished,       \* local `finished` of SyncStream.get_records
    queue_items,    \* local `queue_items` / `items`: the batch of the last fetch
    idx,            \* position of the for loop in queue_items
    ack_keys,       \* local `ack_keys`
    srv_items,      \* the queue items the server may deliver
    srv_left,       \* non-empty batches the server still delivers in this run
    runs_left,      \* runs still to come after this one
    redeliver,      \* the server never fails and delivers, on every fetch, all it holds unacknowledged
    calls,          \* the sync requests issued in this run, in order
    yielded,        \* the records handed to the caller in this run, in order
    generated,      \* how many device ids uuid.uuid4() produced over all runs
    used,           \* the device ids sent with any request over all runs
    \* ---- paged streams (client.py, streams.py, streams/*.py) ----
    kind,           \* which stream class get_records belongs to
    page_size,      \* self.config.get("page_size")
    srv_sizes,      \* per context, the sizes of the pages the server holds
    paginator,      \* self._paginator of the stream instance
    inv_left,       \* get_records invocations still to come on this instance
    fresh_inst,     \* the instance had no paginator when this invocation began
    ctx,            \* the parent id in the context of this invocation
    ppc,            \* position of the get_records generator
    page,           \* local `page` of the page-number loops
    pfinished,      \* local `finished` of the page-number loops
    tries,          \* failed attempts of the list_data call under way
    token,          \* local `next_page_token` of request_records
    resp,           \* the response being iterated: its rows and its next_page link
    pidx,           \* position in the rows of resp
    requests,       \* the requests of this invocation with their responses, in order
    pyielded,       \* the records yielded by this invocation, in order
    \* ---- custom field discovery (client.py) ----
    access_token,   \* self.config.get("access_token")
    cf_defs,        \* per resource type, what GET /{type}/custom_fields answers
    hash_order,     \* the order in which this process iterates a set of resource types
    schema_left,    \* _update_schema calls still to come on this instance
    spc,            \* position of the _update_schema call
    resource_type_set,          \* the argument of the call
    todo,           \* the resource types the for loop of _update_schema has not visited
    cf_data,        \* local `data` of _process_single_resource_type_fields
    cf_idx,         \* position of its for loop in data
    custom_fields_properties,   \* the mapping the call accumulates and returns
    log,            \* the warnings and errors logged by this call, in order
    fetched,        \* the resource types requested by this call, in order
    results         \* per argument, the mapping its first call returned and the calls completed

evars == <<variant, config_uuid, state_uuid, pc, session, finished, queue_items,
           idx, ack_keys, srv_items, srv_left, runs_left, redeliver, calls, yielded,
           generated, used>>

pvars == <<kind, page_size, srv_sizes, paginator, inv_left, fresh_inst, ctx, ppc,
           page, pfinished, tries, token, resp, pidx, requests, pyielded>>

svars == <<access_token, cf_defs, hash_order, schema_left, spc, resource_type_set,
           todo, cf_data, cf_idx, custom_fields_properties, log, fetched, results>>

vars == <<evars, pvars, svars>>

-----------------------------------------------------------------------------
(* Bounds *)

MaxBatch == 2       \* items per fetched batch
MaxBatches == 2     \* non-empty batches the server delivers in one run
MaxRuns == 2        \* runs in a sequence that carries the state forward
MaxPages == 2       \* pages the server holds for one context
MaxInvocations == 2 \* get_records invocations on one stream instance
MaxSchemaCalls == 3 \* _update_schema calls on one stream instance

-----------------------------------------------------------------------------
(* Values *)

None == "none"
NoKey == "nokey"

ConfigIds == {"D1", "D2"}
FreshIds == {"G1", "G2"}
SessionIds == {"s1", "s2"}

\* Queue items {data, meta: {sync: {ack_key}}}; the third carries no ack key.
Items == { [data |-> "e1", ack_key |-> "k1"],
           [data |-> "e2", ack_key |-> "k2"],
           [data |-> "e3", ack_key |-> NoKey] }

\* Sequences of distinct elements of S, of length 0..n.
RECURSIVE DistinctSeqs(_, _)
DistinctSeqs(S, n) ==
    IF n = 0 THEN { <<>> }
    ELSE LET shorter == DistinctSeqs(S, n - 1)
         IN shorter \cup
            UNION { { Append(s, x) : x \in S \ { s[i] : i \in 1..Len(s) } } :
                    s \in { t \in shorter : Len(t) = n - 1 } }

\* A sync request as recorded: sid is the session id a fetch is sent for and,
\* for the start call, the session id the server answered with.
Call(op, dev, sid, keys, items, ok) ==
    [op |-> op, dev |-> dev, sid |-> sid, keys |-> keys, items |-> items,
     ok |-> ok, at |-> Len(yielded)]

\* The history of a run, kept where runs are finite: against a server that
\* redelivers a run may go on for ever, and no history is kept.
Record(h, x) == IF redeliver THEN h ELSE Append(h, x)

\* The outcomes of a request: served or failed.
Outcomes == IF redeliver THEN {TRUE} ELSE BOOLEAN

\* What the server holds after an ack call: a redelivering server drops the
\* items whose keys were acknowledged.
AfterAck(held, keys, ok) ==
    IF redeliver /\ ok
    THEN { it \in held : \A k \in 1..Len(keys) : it.ack_key # keys[k] }
    ELSE held

-----------------------------------------------------------------------------
(* SyncStream.get_device_uuid (streams/sync.py; streams/events.py is the same) *)

\* A resolution that looks at the configuration first.
get_device_uuid_ConfigFirst(st, cfg, fresh) ==
    IF cfg # None
    THEN [ret |-> cfg, state |-> cfg, gen |-> FALSE]
    ELSE IF st # None
         THEN [ret |-> st, state |-> st, gen |-> FALSE]
         ELSE [ret |-> fresh, state |-> fresh, gen |-> TRUE]

get_device_uuid(st, cfg, fresh) ==
    IF st # None
    THEN [ret |-> st, state |-> st, gen |-> FALSE]
    ELSE IF cfg # None
         THEN [ret |-> cfg, state |-> cfg, gen |-> FALSE]
         ELSE [ret |-> fresh, state |-> fresh, gen |-> TRUE]

\* A for loop left after its first item.
LoopDone_Early(i, items) == i > 1 \/ i > Len(items)

\* `for item in queue_items`: the loop is over once every item was visited.
LoopDone(i, items) == i > Len(items)

\* A while loop that never looks at `finished`.
SyncWhile_NoStop(fin) == "fetch"

\* `while not finished` of SyncStream.get_records.
SyncWhile(fin) == IF fin THEN "done" ELSE "fetch"

\* A request of SyncStream: get_device_uuid() is evaluated for it, which may
\* generate an id and always leaves the id in the state.
SyncRequest(op, sid, keys, items, ok, fresh) ==
    LET d == get_device_uuid(state_uuid, config_uuid, fresh) IN
    /\ state_uuid' = d.state
    /\ generated' = generated + (IF d.gen THEN 1 ELSE 0)
    /\ used' = used \cup {d.ret}
    /\ calls' = Record(calls, Call(op, d.ret, sid, keys, items, ok))

\* A request of streams.py's EventsStream: the headers built once from the
\* configuration; the state is not read and not written.
EventsRequest(op, sid, keys, items, ok) ==
    /\ used' = used \cup {config_uuid}
    /\ calls' = Record(calls, Call(op, config_uuid, sid, keys, items, ok))
    /\ UNCHANGED <<state_uuid, generated>>

StartResponses ==
    IF redeliver THEN SessionIds ELSE {"error", "no_content", "no_id"} \cup SessionIds

\* A start answer taken for a session whenever it has content.
NoSession_IdUnchecked(sresp) == sresp = "no_content"

\* `if session is None or "id" not in session` (streams/sync.py);
\* status 204, or `if not session_id` (streams.py)
NoSession(sresp) == sresp \notin SessionIds

\* A session id kept from an earlier answer.
SessionOf_Stale(sresp) == IF sresp \in SessionIds THEN "s1" ELSE None

\* session["id"] / session.get("id")
SessionOf(sresp) == IF sresp \in SessionIds THEN sresp ELSE None

\* A failed request that is passed over.
AfterCall_Swallowed(ok, nxt) == nxt

\* Where get_records goes after a request: a failed one raises
\* (raise_for_status; the client's error), nothing catches it.
AfterCall(ok, nxt) == IF ok THEN nxt ELSE "error"

\* What the server may answer to a fetch.
FetchResponses ==
    IF redeliver
    THEN { b \in DistinctSeqs(srv_items, Cardinality(srv_items)) :
              Len(b) = Cardinality(srv_items) }
    ELSE IF srv_left = 0 THEN { <<>> } ELSE DistinctSeqs(srv_items, MaxBatch)

-----------------------------------------------------------------------------
(* SyncStream.get_records (streams/sync.py) *)

SyncStart ==
    /\ variant = "sync" /\ pc = "new"
    /\ \E fresh \in FreshIds, sresp \in StartResponses :
         /\ SyncRequest("start", IF sresp \in SessionIds THEN sresp ELSE None,
                        <<>>, <<>>, sresp # "error", fresh)
         /\ session' = SessionOf(sresp)
         /\ finished' = NoSession(sresp)
         /\ pc' = AfterCall(sresp # "error", SyncWhile(NoSession(sresp)))
    /\ UNCHANGED <<pvars, svars>>
    /\ UNCHANGED <<variant, redeliver, config_uuid, queue_items, idx, ack_keys,
                   srv_items, srv_left, runs_left, yielded>>

SyncFetch ==
    /\ variant = "sync" /\ pc = "fetch"
    /\ \E fresh \in FreshIds, ok \in Outcomes, b \in FetchResponses :
         IF ~ok
         THEN /\ b = <<>>
              /\ SyncRequest("fetch", session, <<>>, <<>>, FALSE, fresh)
              /\ pc' = AfterCall(FALSE, pc)
              /\ UNCHANGED <<queue_items, idx, ack_keys, finished, srv_left>>
         ELSE /\ SyncRequest("fetch", session, <<>>, b, TRUE, fresh)
              /\ queue_items' = b
              /\ finished' = (b = <<>>)
              /\ ack_keys' = <<>>
              /\ idx' = 1
              /\ srv_left' = IF b = <<>> \/ redeliver THEN srv_left ELSE srv_left - 1
              /\ pc' = "for"
    /\ UNCHANGED <<pvars, svars>>
    /\ UNCHANGED <<variant, redeliver, config_uuid, session, srv_items, runs_left, yielded>>

\* One turn of the for loop: the key is read (a KeyError when the item has
\* none) and appended, then the record is yielded; after the loop the ack
\* call follows if any key was collected.
SyncForStep ==
    /\ variant = "sync" /\ pc = "for"
    /\ IF LoopDone(idx, queue_items)
       THEN /\ pc' = IF ack_keys # <<>> THEN "ack" ELSE SyncWhile(finished)
            /\ UNCHANGED <<ack_keys, yielded>>
       ELSE LET item == queue_items[idx] IN
            IF item.ack_key = NoKey
            THEN pc' = "error" /\ UNCHANGED <<ack_keys, yielded>>
            ELSE /\ ack_keys' = Append(ack_keys, item.ack_key)
                 /\ yielded' = Record(yielded, [data |-> item.data, meta |-> item.ack_key])
                 /\ pc' = "yield"
    /\ UNCHANGED <<pvars, svars>>
    /\ UNCHANGED <<variant, redeliver, config_uuid, state_uuid, session, finished, queue_items,
                   idx, srv_items, srv_left, runs_left, calls, generated, used>>

\* The caller asks for the next record.
SyncResume ==
    /\ variant = "sync" /\ pc = "yield"
    /\ idx' = idx + 1
    /\ pc' = "for"
    /\ UNCHANGED <<pvars, svars>>
    /\ UNCHANGED <<variant, redeliver, config_uuid, state_uuid, session, finished, queue_items,
                   ack_keys, srv_items, srv_left, runs_left, calls, yielded,
                   generated, used>>

SyncAck ==
    /\ variant = "sync" /\ pc = "ack"
    /\ \E fresh \in FreshIds, ok \in Outcomes :
         /\ SyncRequest("ack", None, ack_keys, <<>>, ok, fresh)
         /\ srv_items' = AfterAck(srv_items, ack_keys, ok)
         /\ pc' = AfterCall(ok, SyncWhile(finished))
    /\ UNCHANGED <<pvars, svars>>
    /\ UNCHANGED <<variant, redeliver, config_uuid, session, finished, queue_items, idx,
                   ack_keys, srv_left, runs_left, yielded>>

-----------------------------------------------------------------------------
(* EventsStream.get_records (streams.py) *)

EventsStart ==
    /\ variant = "streams" /\ pc = "new"
    /\ IF config_uuid = None
       THEN /\ pc' = "done"
            /\ UNCHANGED <<state_uuid, session, calls, generated, used>>
       ELSE \E sresp \in StartResponses :
              /\ EventsRequest("start", IF sresp \in SessionIds THEN sresp ELSE None,
                               <<>>, <<>>, sresp # "error")
              /\ session' = SessionOf(sresp)
              /\ pc' = AfterCall(sresp # "error",
                                 IF NoSession(sresp) THEN "done" ELSE "fetch")
    /\ UNCHANGED <<pvars, svars>>
    /\ UNCHANGED <<variant, redeliver, config_uuid, finished, queue_items, idx, ack_keys,
                   srv_items, srv_left, runs_left, yielded>>

EventsFetch ==
    /\ variant = "streams" /\ pc = "fetch"
    /\ \E ok \in Outcomes, b \in FetchResponses :
         IF ~ok
         THEN /\ b = <<>>
              /\ EventsRequest("fetch", session, <<>>, <<>>, FALSE)
              /\ pc' = AfterCall(FALSE, pc)
              /\ UNCHANGED <<queue_items, idx, ack_keys, srv_left>>
         ELSE /\ EventsRequest("fetch", session, <<>>, b, TRUE)
              /\ queue_items' = b
              /\ ack_keys' = <<>>
              /\ idx' = 1
              /\ srv_left' = IF b = <<>> \/ redeliver THEN srv_left ELSE srv_left - 1
              /\ pc' = IF b = <<>> THEN "done" ELSE "for"
    /\ UNCHANGED <<pvars, svars>>
    /\ UNCHANGED <<variant, redeliver, config_uuid, session, finished, srv_items, runs_left,
                   yielded>>

\* One turn of the for loop: the record is yielded first; after the loop
\* the ack call follows if any key was collected.
EventsForStep ==
    /\ variant = "streams" /\ pc = "for"
    /\ IF LoopDone(idx, queue_items)
       THEN /\ pc' = IF ack_keys # <<>> THEN "ack" ELSE "fetch"
            /\ UNCHANGED yielded
       ELSE /\ yielded' = Record(yielded, [data |-> queue_items[idx].data, meta |-> None])
            /\ pc' = "yield"
    /\ UNCHANGED <<pvars, svars>>
    /\ UNCHANGED <<variant, redeliver, config_uuid, state_uuid, session, finished, queue_items,
                   idx, ack_keys, srv_items, srv_left, runs_left, calls, generated,
                   used>>

\* The caller asks for the next record: the key of the item just yielded is
\* collected if the item has one.
EventsResume ==
    /\ variant = "streams" /\ pc = "yield"
    /\ ack_keys' = IF queue_items[idx].ack_key # NoKey
                   THEN Append(ack_keys, queue_items[idx].ack_key)
                   ELSE ack_keys
    /\ idx' = idx + 1
    /\ pc' = "for"
    /\ UNCHANGED <<pvars, svars>>
    /\ UNCHANGED <<variant, redeliver, config_uuid, state_uuid, session, finished, queue_items,
                   srv_items, srv_left, runs_left, calls, yielded, generated, used>>

EventsAck ==
    /\ variant = "streams" /\ pc = "ack"
    /\ \E ok \in Outcomes :
         /\ EventsRequest("ack", None, ack_keys, <<>>, ok)
         /\ srv_items' = AfterAck(srv_items, ack_keys, ok)
         /\ pc' = AfterCall(ok, "fetch")
    /\ UNCHANGED <<pvars, svars>>
    /\ UNCHANGED <<variant, redeliver, config_uuid, session, finished, queue_items, idx,
                   ack_keys, srv_left, runs_left, yielded>>

-----------------------------------------------------------------------------
(* The caller of get_records *)

\* The consumer stops pulling records: the generator is closed where it is
\* suspended, at a yield.
Close ==
    /\ pc = "yield"
    /\ pc' = "closed"
    /\ UNCHANGED <<pvars, svars>>
    /\ UNCHANGED <<variant, redeliver, config_uuid, state_uuid, session, finished, queue_items,
                   idx, ack_keys, srv_items, srv_left, runs_left, calls, yielded,
                   generated, used>>

\* The next run of the tap: a new generator, the run state carried forward,
\* the configuration as the operator left it.
NewRun ==
    /\ pc \in {"done", "error", "closed"}
    /\ runs_left > 0
    /\ runs_left' = runs_left - 1
    /\ \E cfg \in {None} \cup ConfigIds : config_uuid' = cfg
    /\ pc' = "new"
    /\ session' = None
    /\ finished' = FALSE
    /\ queue_items' = <<>>
    /\ idx' = 1
    /\ ack_keys' = <<>>
    /\ srv_left' = 1
    /\ calls' = <<>>
    /\ yielded' = <<>>
    /\ UNCHANGED <<pvars, svars>>
    /\ UNCHANGED <<variant, redeliver, state_uuid, srv_items, generated, used>>

-----------------------------------------------------------------------------
(* Paged streams: the server *)

ParentIds == {"42", "7"}
PageSizes == {1, 2}

\* The context of an invocation: a parent id, no context at all, or a
\* context without the parent key.
MissingContexts == {"absent", "nokey"}
Contexts == ParentIds \cup MissingContexts

\* context.get("deal_id") if context else None
ParentOf(c) == IF c \in MissingContexts THEN None ELSE c

LinkKinds == {"link_child"}                       \* streams.py AssociatedContacts, LineItemsStream
TopKinds == {"contacts", "notes", "users", "leads"}   \* streams/contacts.py, notes.py, users.py, leads.py
ChildPageKinds == {"associated_contacts", "line_items"}   \* streams/deals.py, orders.py
PageKinds == TopKinds \cup ChildPageKinds
ChildKinds == LinkKinds \cup ChildPageKinds
Kinds == LinkKinds \cup PageKinds

\* The classes whose list_data is wrapped in backoff.on_exception.
RetryKinds == {"leads", "line_items"}

\* max_tries of backoff.on_exception
max_tries == 3

\* A retry that allows one attempt more.
GiveUp_OneLate(n) == n >= max_tries + 1

\* backoff.on_exception gives up, and re-raises, once n attempts were made.
GiveUp(n) == n >= max_tries

\* The page sizes a configuration may set.
ConfiguredSizes == {25}

\* per_page of a list request; ps = 0 stands for no configured page size.
\* client.py: self.config.get("page_size", 100), and the next_page link the
\* server built from it; the page-number loops: the literal 100.
PerPage(k, ps) ==
    IF k \in LinkKinds THEN (IF ps = 0 THEN 100 ELSE ps) ELSE 100

\* The shape of the page loop of each class.
Style(k) ==
    CASE k \in {"contacts", "associated_contacts", "leads"} -> "continue"
      [] k \in {"notes", "line_items"} -> "break"
      [] OTHER -> "flag"

SizeSeqs == UNION { [1..n -> PageSizes] : n \in 0..MaxPages }

NoLink == [ctx |-> None, page |-> 0]
Url(c, n) == [ctx |-> c, page |-> n]

\* Row i of page n of the collection of parent c, as the API returns it: the
\* first row of a page without the parent field, the others with another value.
\* A JSON value of a monetary or quantity field (a deal's value, a line
\* item's price): a string, a number or null.
Json(k, text) == [kind |-> k, text |-> text]

\* The value the API gives such a field: the first row of a page has a
\* numeric-looking string, the others a string that is no number.
ApiValue(i) == IF i = 1 THEN Json("str", "12.50") ELSE Json("str", "n/a")

Row(c, n, i) ==
    [id |-> <<c, n, i>>, line_item_id |-> <<>>, fk |-> IF i = 1 THEN None ELSE "99",
     value |-> ApiValue(i)]

Rows(c, n) ==
    IF n \in 1..Len(srv_sizes[c])
    THEN [i \in 1..srv_sizes[c][n] |-> Row(c, n, i)]
    ELSE <<>>

\* The response to a request for page u.page of parent u.ctx: the rows and,
\* while a later page exists, meta.links.next_page.
Serve(u) ==
    [rows |-> Rows(u.ctx, u.page),
     next |-> IF u.page < Len(srv_sizes[u.ctx]) THEN Url(u.ctx, u.page + 1) ELSE NoLink]

NoResp == [rows |-> <<>>, next |-> NoLink]

\* A request as recorded, with its answer: how it was addressed, its
\* per_page, the attempts list_data made for it, and whether it succeeded.
Req(via, target, r, ok) ==
    [via |-> via, target |-> target, rows |-> r.rows, next |-> r.next, ok |-> ok,
     per_page |-> PerPage(kind, page_size), attempts |-> tries + 1,
     cursor |-> IF kind \in LinkKinds THEN token ELSE page]

-----------------------------------------------------------------------------
(* ZendeskSellPaginator and the paging methods of ZendeskSellStream (client.py) *)

NoPaginator ==
    [made |-> FALSE, current_page |-> 0, next_page_url |-> NoLink, finished |-> FALSE]

\* ZendeskSellStream.get_new_paginator: made once, then kept on the instance.
get_new_paginator(pg) ==
    IF ~pg.made
    THEN [made |-> TRUE, current_page |-> 1, next_page_url |-> NoLink, finished |-> FALSE]
    ELSE pg

has_more(pg) == ~pg.finished

\* ZendeskSellPaginator.get_next, on a response that passed validation
\* (status 200): the paginator it leaves.
get_next(pg, r) ==
    IF r.next = NoLink
    THEN [pg EXCEPT !.finished = TRUE]
    ELSE [pg EXCEPT !.next_page_url = r.next, !.current_page = @ + 1]

\* ZendeskSellStream.get_next_page_token; token 0 stands for None.
get_next_page_token(pg, r) ==
    LET q == get_next(pg, r)
    IN [paginator |-> q, token |-> IF has_more(q) THEN q.current_page ELSE 0]

\* A request that always goes by page number.
PrepareRequest_ParamsOnly(pg, tok, c) ==
    [via |-> "params", target |-> Url(c, IF tok # 0 THEN tok ELSE 1)]

\* A request that goes to the paginator's next_page_url whenever there is
\* one, token or not.
PrepareRequest_StaleUrl(pg, tok, c) ==
    IF pg.next_page_url # NoLink
    THEN [via |-> "url", target |-> pg.next_page_url]
    ELSE [via |-> "params", target |-> Url(c, IF tok # 0 THEN tok ELSE 1)]

\* The request request_records prepares: the paginator's next_page_url when
\* there is one and a token, else the stream's url with get_url_params' page.
PrepareRequest(pg, tok, c) ==
    IF pg.next_page_url # NoLink /\ tok # 0
    THEN [via |-> "url", target |-> pg.next_page_url]
    ELSE [via |-> "params", target |-> Url(c, IF tok # 0 THEN tok ELSE 1)]

-----------------------------------------------------------------------------
(* get_records of the paged streams *)

\* A child stream that never skips.
MissingParent_Never(c) == FALSE

\* `if deal_id is None` / `if order_id is None`
MissingParent(c) == ParentOf(c) = None

\* A parent key set only where the API left it out.
WithParent_KeepApi(row, parent) ==
    IF row.fk = None THEN [row EXCEPT !.fk = parent] ELSE row

\* row["deal_id"] = deal_id / row["order_id"] = order_id
WithParent(row, parent) == [row EXCEPT !.fk = parent]

\* primary_keys of the class: ["id"], except for the child streams of
\* streams/deals.py and streams/orders.py, which declare none.
primary_keys(k) ==
    IF k \in {"associated_contacts", "line_items"} THEN <<>> ELSE << "id" >>

\* Every stream renames the id as streams/orders.py does for line items.
Emit_RenameId(k, row, c) ==
    [row EXCEPT !.line_item_id = row.id, !.id = <<>>, !.fk = ParentOf(c)]

\* The record a stream yields for a row of the response.
Emit(k, row, c) ==
    CASE k \in {"link_child", "associated_contacts"} -> WithParent(row, ParentOf(c))
      [] k = "line_items" ->
            WithParent([row EXCEPT !.line_item_id = row.id, !.id = <<>>], ParentOf(c))
      [] OTHER -> row

\* A page counter that stays where it is.
NextPage_Stuck(p) == p

\* `page += 1`
NextPage(p) == p + 1

\* A flag loop whose flag is not looked at.
AfterEmpty_FlagIgnored(style) == IF style = "flag" THEN "request" ELSE "done"

\* Where the loop goes after an empty page: `break`, or `finished = True`
\* and, the empty page yielded from, the test of `while not finished`.
AfterEmpty(style) == "done"

\* A page taken for the last one when it is short.
EmptyPage_Short(data) == Len(data) < 2

\* `if not data`
EmptyPage(data) == data = <<>>

\* A loop over the rows that stops one short.
RowsDone_OneShort(i, rows) == i >= Len(rows)

\* `yield from data` / `for row in data` / `for record in request_records`
RowsDone(i, rows) == i > Len(rows)

\* The caller invokes get_records with a context; the code up to the first
\* request runs.
GetRecords ==
    /\ ppc \in {"idle", "done", "error", "closed"}
    /\ inv_left > 0
    /\ inv_left' = inv_left - 1
    /\ \E c \in (IF kind \in ChildKinds THEN Contexts ELSE {"absent"}) :
         /\ ctx' = c
         /\ IF kind \in ChildKinds /\ MissingParent(c)
            THEN /\ ppc' = "done"
                 /\ UNCHANGED <<paginator, fresh_inst, page, pfinished, token>>
            ELSE IF kind \in LinkKinds
                 THEN /\ paginator' = get_new_paginator(paginator)
                      /\ fresh_inst' = ~paginator.made
                      /\ token' = 0
                      /\ ppc' = "request"
                      /\ UNCHANGED <<page, pfinished>>
                 ELSE /\ page' = 1
                      /\ pfinished' = FALSE
                      /\ ppc' = "request"
                      /\ UNCHANGED <<paginator, fresh_inst, token>>
    /\ resp' = NoResp
    /\ pidx' = 1
    /\ tries' = 0
    /\ requests' = <<>>
    /\ pyielded' = <<>>
    /\ UNCHANGED <<kind, page_size, srv_sizes>>
    /\ UNCHANGED <<evars, svars>>

\* ZendeskSellStream.request_records: one request of the while loop.
request_records ==
    /\ kind \in LinkKinds /\ ppc = "request"
    /\ \E ok \in BOOLEAN :
         LET rq == PrepareRequest(paginator, token, ParentOf(ctx)) IN
         IF ok
         THEN /\ requests' = Append(requests, Req(rq.via, rq.target, Serve(rq.target), TRUE))
              /\ resp' = Serve(rq.target)
              /\ pidx' = 1
              /\ ppc' = "rows"
         ELSE /\ requests' = Append(requests, Req(rq.via, rq.target, NoResp, FALSE))
              /\ ppc' = "error"
              /\ UNCHANGED <<resp, pidx>>
    /\ UNCHANGED <<kind, page_size, srv_sizes, paginator, inv_left, fresh_inst, ctx, page,
                   pfinished, token, pyielded>>
    /\ UNCHANGED tries
    /\ UNCHANGED <<evars, svars>>

\* After the rows of a response: get_next_page_token, then the loop's exit test.
LinkNext ==
    /\ kind \in LinkKinds /\ ppc = "rows" /\ RowsDone(pidx, resp.rows)
    /\ LET t == get_next_page_token(paginator, resp) IN
         /\ paginator' = t.paginator
         /\ token' = t.token
         /\ ppc' = IF t.token = 0 THEN "done" ELSE "request"
    /\ UNCHANGED <<kind, page_size, srv_sizes, inv_left, fresh_inst, ctx, page, pfinished, resp,
                   pidx, requests, pyielded>>
    /\ UNCHANGED tries
    /\ UNCHANGED <<evars, svars>>

\* An attempt of a wrapped list_data fails with a request exception and
\* backoff tries again.
ListRetry ==
    /\ kind \in RetryKinds /\ ppc = "request"
    /\ ~GiveUp(tries + 1)
    /\ tries' = tries + 1
    /\ UNCHANGED <<kind, page_size, srv_sizes, paginator, inv_left, fresh_inst, ctx, ppc,
                   page, pfinished, token, resp, pidx, requests, pyielded>>
    /\ UNCHANGED <<evars, svars>>

\* The page-number loops: self.conn.<resource>.list(page=page, per_page=100)
\* (through list_data where the class has one) and the test of the page. The
\* call fails for good when the list call is not wrapped, when backoff
\* gives up, or on an error that is no request exception.
ListPage ==
    /\ kind \in PageKinds /\ ppc = "request"
    /\ tries' = 0
    /\ \E ok \in BOOLEAN, retriable \in BOOLEAN :
         LET u == Url(ParentOf(ctx), page)
             data == Serve(u).rows
         IN
         IF ~ok
         THEN /\ kind \notin RetryKinds \/ GiveUp(tries + 1) \/ ~retriable
              /\ requests' = Append(requests, Req("params", u, NoResp, FALSE))
              /\ ppc' = "error"
              /\ UNCHANGED <<resp, pidx, page, pfinished>>
         ELSE /\ retriable
              /\ requests' = Append(requests, Req("params", u, [rows |-> data, next |-> NoLink], TRUE))
              /\ resp' = [rows |-> data, next |-> NoLink]
              /\ pidx' = 1
              /\ IF EmptyPage(data)
                 THEN /\ ppc' = AfterEmpty(Style(kind))
                      /\ pfinished' = (Style(kind) # "break")
                      /\ page' = IF Style(kind) = "flag" THEN NextPage(page) ELSE page
                 ELSE /\ ppc' = "rows"
                      /\ UNCHANGED <<page, pfinished>>
    /\ UNCHANGED <<kind, page_size, srv_sizes, paginator, inv_left, fresh_inst, ctx, token,
                   pyielded>>
    /\ UNCHANGED <<evars, svars>>

\* After the rows of a page: page += 1 and back to the top of the loop.
PageNext ==
    /\ kind \in PageKinds /\ ppc = "rows" /\ RowsDone(pidx, resp.rows)
    /\ page' = NextPage(page)
    /\ ppc' = "request"
    /\ UNCHANGED <<kind, page_size, srv_sizes, paginator, inv_left, fresh_inst, ctx, pfinished,
                   token, resp, pidx, requests, pyielded>>
    /\ UNCHANGED tries
    /\ UNCHANGED <<evars, svars>>

\* The next row of the response is yielded.
YieldRow ==
    /\ ppc = "rows" /\ ~RowsDone(pidx, resp.rows)
    /\ pyielded' = Append(pyielded, Emit(kind, resp.rows[pidx], ctx))
    /\ ppc' = "yield"
    /\ UNCHANGED <<kind, page_size, srv_sizes, paginator, inv_left, fresh_inst, ctx, page,
                   pfinished, token, resp, pidx, requests>>
    /\ UNCHANGED tries
    /\ UNCHANGED <<evars, svars>>

\* The caller asks for the next record.
ResumeRows ==
    /\ ppc = "yield"
    /\ pidx' = pidx + 1
    /\ ppc' = "rows"
    /\ UNCHANGED <<kind, page_size, srv_sizes, paginator, inv_left, fresh_inst, ctx, page,
                   pfinished, token, resp, requests, pyielded>>
    /\ UNCHANGED tries
    /\ UNCHANGED <<evars, svars>>

\* The caller abandons the invocation.
CloseRows ==
    /\ ppc = "yield"
    /\ ppc' = "closed"
    /\ UNCHANGED <<kind, page_size, srv_sizes, paginator, inv_left, fresh_inst, ctx, page,
                   pfinished, token, resp, pidx, requests, pyielded>>
    /\ UNCHANGED tries
    /\ UNCHANGED <<evars, svars>>

-----------------------------------------------------------------------------
(* Custom field discovery: ZendeskSellStream._update_schema (client.py) *)

resource_types == {"deal", "contact", "lead", "prospect_and_customer"}

\* custom_field_type: each declared type with the JSON-schema shape it
\* resolves to; types with equal dictionaries resolve to the same shape.
\* A schema shape {"type": [...], "format": ..., "items": {"type": [...]},
\* "properties": {...}}: a key the shape does not have is None or empty.
Shape(ty, fmt, items, props) ==
    [type |-> ty, format |-> fmt, items |-> items, properties |-> props]

\* The keys of an address and the type of each.
address_properties ==
    { <<k, <<"string", "null">>>> :
        k \in {"line1", "city", "postal_code", "state", "country"} }

\* A type table whose "number" is a JSON number.
custom_field_type_NumberTyped ==
    [t \in {"address", "bool", "boolean", "date", "datetime", "email", "list",
            "multi_select_list", "number", "phone", "string", "text", "url"} |->
        CASE t = "address" -> Shape(<<"object", "null">>, None, <<>>, address_properties)
          [] t \in {"bool", "boolean"} -> Shape(<<"boolean", "null">>, None, <<>>, {})
          [] t = "datetime" -> Shape(<<"string", "null">>, "date-time", <<>>, {})
          [] t = "multi_select_list" -> Shape(<<"array", "null">>, None, <<"string">>, {})
          [] t = "number" -> Shape(<<"number", "null">>, None, <<>>, {})
          [] OTHER -> Shape(<<"string", "null">>, None, <<>>, {})]

custom_field_type ==
    [t \in {"address", "bool", "boolean", "date", "datetime", "email", "list",
            "multi_select_list", "number", "phone", "string", "text", "url"} |->
        CASE t = "address" -> Shape(<<"object", "null">>, None, <<>>, address_properties)
          [] t \in {"bool", "boolean"} -> Shape(<<"boolean", "null">>, None, <<>>, {})
          [] t = "datetime" -> Shape(<<"string", "null">>, "date-time", <<>>, {})
          [] t = "multi_select_list" -> Shape(<<"array", "null">>, None, <<"string">>, {})
          [] OTHER -> Shape(<<"string", "null">>, None, <<>>, {})]

\* No shape: the type is not in the table / the name is not in the mapping.
Unsupported == Shape(<<>>, "unsupported", <<>>, {})
Absent == Shape(<<>>, "absent", <<>>, {})
Names == {"X", "Y", "Z"}

\* A custom field definition {data: {name, type}}; None stands for a key
\* that is missing or empty.
Field(n, t) == [name |-> n, type |-> t]

\* What the server may answer for a resource type: an error, or a list of
\* definitions.
Answer(ok, items) == [ok |-> ok, items |-> items]

FieldLists ==
    { Answer(FALSE, <<>>),
      Answer(TRUE, <<>>),
      Answer(TRUE, << Field("X", "string") >>),
      Answer(TRUE, << Field("X", "bool"), Field("Y", "number") >>),
      Answer(TRUE, << Field("Y", "geo"), Field("X", "number") >>),
      Answer(TRUE, << Field(None, "string"), Field("Y", "bool"), Field("X", None) >>),
      Answer(TRUE, << Field("Z", "address"), Field("Y", "boolean"),
                      Field("X", "multi_select_list") >>) }

\* The arguments _update_schema is called with: none, or a set.
Arg(given, S) == [given |-> given, set |-> S]

RtArgs ==
    { Arg(FALSE, {}), Arg(TRUE, {"deal"}), Arg(TRUE, {"contact"}),
      Arg(TRUE, {"deal", "contact"}), Arg(TRUE, {"deal", "task"}) }

\* A set from which the tags that are not resource types are dropped.
EffectiveSet_Lenient(arg) ==
    IF arg.given THEN arg.set \cap resource_types ELSE resource_types

\* `if resource_type_set is None: resource_type_set = self.resource_types`
EffectiveSet(arg) == IF arg.given THEN arg.set ELSE resource_types

\* Two iteration orders a process may have for these strings: they differ in
\* which of "deal" and "contact" comes first.
HashOrders ==
    { << "deal", "contact", "lead", "prospect_and_customer" >>,
      << "prospect_and_customer", "contact", "lead", "deal" >> }

\* `for resource_type in resource_type_set`
Iterate(S) == SelectSeq(hash_order, LAMBDA r : r \in S)

\* `if not access_token` / `if not field_name or not field_type`
Falsy(v) == v = None \/ v = ""

EmptyMapping == [n \in Names |-> Absent]

\* A mapping that starts from what the previous call left.
InitialMapping_Kept(prev) == prev

\* `custom_fields_properties: dict[str, dict] = {}`
InitialMapping(prev) == EmptyMapping

\* A type table that falls back to the string shape.
Resolve_Default(t) ==
    IF t \in DOMAIN custom_field_type THEN custom_field_type[t]
    ELSE custom_field_type["string"]

\* `if field_type in self.custom_field_type: type_dict = ...`
Resolve(t) ==
    IF t \in DOMAIN custom_field_type THEN custom_field_type[t] ELSE Unsupported

\* A conflict settled for the shape seen last.
OnConflict_KeepLast(existing, type_dict) == type_dict

\* `elif custom_fields_properties[field_name] != type_dict`: the entry stays.
OnConflict(existing, type_dict) == existing

Warning(what, n, t, r) ==
    [what |-> what, name |-> n, type |-> t, resource |-> r]

NoResult == [n |-> 0, map |-> EmptyMapping]

\* _update_schema is called: the checks of its argument and of the access
\* token, then the empty mapping and the start of the loop.
UpdateSchema ==
    /\ spc \in {"idle", "returned", "error"}
    /\ schema_left > 0
    /\ schema_left' = schema_left - 1
    /\ \E arg \in RtArgs :
         /\ resource_type_set' = arg
         /\ IF ~(EffectiveSet(arg) \subseteq resource_types) \/ Falsy(access_token)
            THEN /\ spc' = "error"
                 /\ todo' = <<>>
                 /\ UNCHANGED custom_fields_properties
            ELSE /\ spc' = "loop"
                 /\ todo' = Iterate(EffectiveSet(arg))
                 /\ custom_fields_properties' = InitialMapping(custom_fields_properties)
    /\ cf_data' = <<>>
    /\ cf_idx' = 1
    /\ log' = <<>>
    /\ fetched' = <<>>
    /\ UNCHANGED <<access_token, cf_defs, hash_order, results>>
    /\ UNCHANGED <<evars, pvars>>

\* A failed request that ends the whole loop.
AfterFetchError_Abort(rest) == <<>>

\* `except requests.exceptions.RequestException: ... return`: the loop of
\* _update_schema goes on with the resource types that remain.
AfterFetchError(rest) == rest

\* _process_single_resource_type_fields up to its for loop: the request; a
\* request error is logged and the resource type is left out.
FetchCustomFields ==
    /\ spc = "loop" /\ todo # <<>>
    /\ LET rt == Head(todo) IN
         /\ fetched' = Append(fetched, rt)
         /\ IF ~cf_defs[rt].ok
            THEN /\ log' = Append(log, Warning("fetch_error", None, None, rt))
                 /\ todo' = AfterFetchError(Tail(todo))
                 /\ UNCHANGED <<spc, cf_data, cf_idx>>
            ELSE /\ cf_data' = cf_defs[rt].items
                 /\ cf_idx' = 1
                 /\ spc' = "fields"
                 /\ UNCHANGED <<log, todo>>
    /\ UNCHANGED <<access_token, cf_defs, hash_order, schema_left, resource_type_set,
                   custom_fields_properties, results>>
    /\ UNCHANGED <<evars, pvars>>

\* One turn of `for custom_field in data`, or the end of that loop.
ProcessField ==
    /\ spc = "fields"
    /\ IF cf_idx > Len(cf_data)
       THEN /\ todo' = Tail(todo)
            /\ spc' = "loop"
            /\ UNCHANGED <<cf_idx, custom_fields_properties, log>>
       ELSE LET field_name == cf_data[cf_idx].name
                field_type == cf_data[cf_idx].type
                type_dict == Resolve(field_type)
                rt == Head(todo)
            IN
            /\ cf_idx' = cf_idx + 1
            /\ UNCHANGED <<todo, spc>>
            /\ IF Falsy(field_name) \/ Falsy(field_type)
               THEN /\ log' = Append(log, Warning("malformed", field_name, field_type, rt))
                    /\ UNCHANGED custom_fields_properties
               ELSE IF type_dict # Unsupported
                    THEN IF custom_fields_properties[field_name] = Absent
                         THEN /\ custom_fields_properties' =
                                    [custom_fields_properties EXCEPT ![field_name] = type_dict]
                              /\ UNCHANGED log
                         ELSE IF custom_fields_properties[field_name] # type_dict
                              THEN /\ custom_fields_properties' =
                                         [custom_fields_properties EXCEPT
                                            ![field_name] = OnConflict(@, type_dict)]
                                   /\ log' = Append(log, Warning("conflict", field_name, field_type, rt))
                              ELSE UNCHANGED <<custom_fields_properties, log>>
                    ELSE /\ log' = Append(log, Warning("unsupported", field_name, field_type, rt))
                         /\ UNCHANGED custom_fields_properties
    /\ UNCHANGED <<access_token, cf_defs, hash_order, schema_left, resource_type_set,
                   cf_data, fetched, results>>
    /\ UNCHANGED <<evars, pvars>>

\* `return custom_fields_properties`
ReturnSchema ==
    /\ spc = "loop" /\ todo = <<>>
    /\ spc' = "returned"
    /\ results' = [results EXCEPT ![resource_type_set] =
                      IF @.n = 0 THEN [n |-> 1, map |-> custom_fields_properties]
                      ELSE [@ EXCEPT !.n = @ + 1]]
    /\ UNCHANGED <<access_token, cf_defs, hash_order, schema_left, resource_type_set,
                   todo, cf_data, cf_idx, custom_fields_properties, log, fetched>>
    /\ UNCHANGED <<evars, pvars>>


-----------------------------------------------------------------------------
(* Specifications *)

PagingInit ==
    /\ paginator = NoPaginator
    /\ fresh_inst = TRUE
    /\ ctx = "absent"
    /\ ppc = "idle"
    /\ page = 1
    /\ pfinished = FALSE
    /\ tries = 0
    /\ token = 0
    /\ resp = NoResp
    /\ pidx = 1
    /\ requests = <<>>
    /\ pyielded = <<>>

SchemaInit ==
    /\ spc = "idle"
    /\ resource_type_set = Arg(FALSE, {})
    /\ todo = <<>>
    /\ cf_data = <<>>
    /\ cf_idx = 1
    /\ custom_fields_properties = EmptyMapping
    /\ log = <<>>
    /\ fetched = <<>>
    /\ results = [a \in RtArgs |-> NoResult]

\* No schema is discovered.
SchemaIdle ==
    /\ SchemaInit
    /\ access_token = "tok"
    /\ cf_defs = [r \in resource_types |-> Answer(TRUE, <<>>)]
    /\ hash_order \in { h \in HashOrders : h[1] = "deal" }
    /\ schema_left = 0

\* No paged stream runs.
PagingIdle ==
    /\ PagingInit
    /\ kind = "notes"
    /\ page_size = 0
    /\ srv_sizes = [c \in ParentIds \cup {None} |-> <<>>]
    /\ inv_left = 0

EventsInit ==
    /\ variant \in {"sync", "streams"}
    /\ pc = "new"
    /\ session = None
    /\ finished = FALSE
    /\ queue_items = <<>>
    /\ idx = 1
    /\ ack_keys = <<>>
    /\ calls = <<>>
    /\ yielded = <<>>
    /\ generated = 0
    /\ used = {}

\* One run against a server that holds every kind of queue item.
InitEvents ==
    /\ EventsInit
    /\ config_uuid \in {None} \cup ConfigIds
    /\ state_uuid \in {None} \cup ConfigIds
    /\ srv_items = Items
    /\ srv_left = MaxBatches
    /\ runs_left = 0
    /\ redeliver = FALSE
    /\ PagingIdle
    /\ SchemaIdle

NextEvents ==
    \/ SyncStart \/ SyncFetch \/ SyncForStep \/ SyncResume \/ SyncAck
    \/ EventsStart \/ EventsFetch \/ EventsForStep \/ EventsResume \/ EventsAck
    \/ Close

SpecEvents == InitEvents /\ [][NextEvents]_vars

\* A sequence of runs; the server holds one keyed item.
InitDevice ==
    /\ EventsInit
    /\ config_uuid \in {None} \cup ConfigIds
    /\ state_uuid \in {None} \cup ConfigIds
    /\ srv_items = { [data |-> "e1", ack_key |-> "k1"] }
    /\ srv_left = 1
    /\ runs_left = MaxRuns - 1
    /\ redeliver = FALSE
    /\ PagingIdle
    /\ SchemaIdle

NextDevice == NextEvents \/ NewRun

SpecDevice == InitDevice /\ [][NextDevice]_vars

\* One run with a configured device id, its consumer pulling every record,
\* against a server that holds a backlog, gets no new event, never fails and
\* redelivers on each fetch whatever was not acknowledged.
InitDrain ==
    /\ EventsInit
    /\ config_uuid \in ConfigIds
    /\ state_uuid \in {None} \cup ConfigIds
    /\ srv_items \in SUBSET Items
    /\ srv_left = 0
    /\ runs_left = 0
    /\ redeliver = TRUE
    /\ PagingIdle
    /\ SchemaIdle

NextDrain ==
    \/ SyncStart \/ SyncFetch \/ SyncForStep \/ SyncResume \/ SyncAck
    \/ EventsStart \/ EventsFetch \/ EventsForStep \/ EventsResume \/ EventsAck

\* get_records runs in one thread and the consumer keeps pulling: a step
\* that can be taken is taken.
SpecDrain == InitDrain /\ [][NextDrain]_vars /\ WF_vars(NextDrain)

\* No events stream runs.
EventsIdle ==
    /\ EventsInit
    /\ variant = "sync"
    /\ config_uuid = None
    /\ state_uuid = None
    /\ srv_items = {}
    /\ srv_left = 0
    /\ runs_left = 0
    /\ redeliver = FALSE

\* One stream instance of any paged class, invoked a few times; a child
\* stream's server holds pages per parent, a top-level stream's one collection.
InitPaging ==
    /\ PagingInit
    /\ kind \in Kinds
    /\ page_size \in {0} \cup ConfiguredSizes
    /\ srv_sizes \in [ParentIds \cup {None} -> SizeSeqs]
    /\ IF kind \in ChildKinds
       THEN srv_sizes[None] = <<>>
       ELSE \A c \in ParentIds : srv_sizes[c] = <<>>
    /\ inv_left = MaxInvocations
    /\ EventsIdle
    /\ SchemaIdle

NextPaging ==
    \/ GetRecords \/ request_records \/ LinkNext \/ ListRetry \/ ListPage \/ PageNext
    \/ YieldRow \/ ResumeRows \/ CloseRows

SpecPaging == InitPaging /\ [][NextPaging]_vars

\* One stream instance whose schema is discovered a few times in one process;
\* "deal" and "contact" have any of the answers, "lead" one datetime field,
\* "prospect_and_customer" none.
InitSchema ==
    /\ SchemaInit
    /\ access_token \in {"tok", "", None}
    /\ \E a, b \in FieldLists :
          cf_defs = [r \in resource_types |->
                        CASE r = "deal" -> a
                          [] r = "contact" -> b
                          [] r = "lead" -> Answer(TRUE, << Field("Z", "datetime") >>)
                          [] OTHER -> Answer(TRUE, <<>>)]
    /\ hash_order \in HashOrders
    /\ schema_left = MaxSchemaCalls
    /\ EventsIdle
    /\ PagingIdle

NextSchema == UpdateSchema \/ FetchCustomFields \/ ProcessField \/ ReturnSchema

SpecSchema == InitSchema /\ [][NextSchema]_vars


-----------------------------------------------------------------------------
(* What a run did, read from its requests and records *)

IsFetch(c) == c.op = "fetch" /\ c.ok
IsEmptyFetch(c) == IsFetch(c) /\ c.items = <<>>
IsBatch(c) == IsFetch(c) /\ c.items # <<>>
IsAck(c) == c.op = "ack"

Batches == SelectSeq(calls, IsBatch)
AckCalls == SelectSeq(calls, IsAck)

HasKey(it) == it.ack_key # NoKey

\* The ack keys of a batch's items, in order.
KeysOf(items) ==
    LET keyed == SelectSeq(items, HasKey)
    IN [i \in 1..Len(keyed) |-> keyed[i].ack_key]

DataOf(s) == [i \in 1..Len(s) |-> s[i].data]

RECURSIVE ConcatItems(_)
ConcatItems(cs) ==
    IF cs = <<>> THEN <<>> ELSE Head(cs).items \o ConcatItems(Tail(cs))

SessionStarted == calls # <<>> /\ calls[1].op = "start" /\ calls[1].ok /\ session # None

AllKeyed == \A i \in 1..Len(calls) : \A j \in 1..Len(calls[i].items) : HasKey(calls[i].items[j])

\* The run drained the queue: it ended normally on an empty fetch.
Drained == pc = "done" /\ SessionStarted /\ IsEmptyFetch(calls[Len(calls)])

DrainResult ==
    /\ DataOf(yielded) = DataOf(ConcatItems(Batches))
    /\ Len(AckCalls) = Len(Batches)
    /\ \A i \in 1..Len(AckCalls) :
          i <= Len(Batches) => AckCalls[i].keys = KeysOf(Batches[i].items)

NoCallAfterEmptyFetch ==
    \A i \in 1..Len(calls) : IsEmptyFetch(calls[i]) => i = Len(calls)

\* C1 as stated: a run of k non-empty batches and one empty batch yields one
\* record per fetched item in fetch order, issues exactly k ack calls, the
\* i-th holding the keys of the i-th batch, and makes no request after the
\* empty fetch.
C1_AsStated ==
    /\ NoCallAfterEmptyFetch
    /\ Drained => DrainResult

\* C1, amended: the same, for runs in which every fetched item carries an
\* ack key; a batch none of whose items carries one gets no ack call.
C1_DrainYieldsAndAcks ==
    /\ NoCallAfterEmptyFetch
    /\ (Drained /\ AllKeyed) => DrainResult

\* start, fetch(2 items), fetch(0 items): 2 records, one ack with both keys.
C1_Witness ==
    /\ Drained
    /\ Len(calls) = 4
    /\ Len(calls[2].items) = 2
    /\ Len(yielded) = 2
    /\ Len(AckCalls) = 1
    /\ AckCalls[1].keys = KeysOf(calls[2].items)
    /\ Len(AckCalls[1].keys) = 2

YieldedKeys ==
    { it.ack_key : it \in { x \in Items : \E i \in 1..Len(yielded) : yielded[i].data = x.data } }

LastFetchBefore(i) ==
    LET js == { j \in 1..(i - 1) : IsFetch(calls[j]) }
    IN calls[CHOOSE j \in js : \A k \in js : k <= j]

\* C2: at every point of every run the ack keys submitted so far belong to
\* items already yielded, and an ack call is issued only after every item
\* of its batch has been yielded.
C2_AckOnlyYielded ==
    \A i \in 1..Len(calls) :
        IsAck(calls[i]) =>
            /\ \A k \in 1..Len(calls[i].keys) : calls[i].keys[k] \in YieldedKeys
            /\ LET f == LastFetchBefore(i) IN
               /\ calls[i].at = f.at + Len(f.items)
               /\ \A k \in 1..Len(f.items) : yielded[f.at + k].data = f.items[k].data

\* A consumer that stopped in the middle of the second batch, after the
\* first batch was acknowledged.
C2_Witness ==
    /\ pc = "closed"
    /\ Len(AckCalls) = 1
    /\ idx < Len(queue_items)
    /\ HasKey(queue_items[idx])

\* C3: with device id "D1" in the run state and none in the configuration
\* the start call is made, carries "D1", nothing is generated and the state
\* still holds "D1".
C3_StartUsesPersistedId ==
    (config_uuid = None /\ state_uuid = "D1" /\ pc # "new") =>
        /\ calls # <<>>
        /\ calls[1].op = "start"
        /\ calls[1].dev = "D1"
        /\ generated = 0

\* C4: over a sequence of runs that carries the state forward at most one
\* device id is generated, the state holds it once generated, and every
\* request of every run carries one and the same device id, the one the
\* state holds.
C4_DeviceIdStable ==
    /\ generated <= 1
    /\ generated = 1 => state_uuid \in FreshIds /\ used \subseteq {state_uuid}
    /\ Cardinality(used) <= 1
    /\ state_uuid # None => used \subseteq {state_uuid}

-----------------------------------------------------------------------------
(* What an invocation of a paged stream did *)

PageCount(c) == Len(srv_sizes[ParentOf(c)])

RECURSIVE RowsUpTo(_, _)
\* The rows of pages 1..n of parent c, in page order.
RowsUpTo(c, n) == IF n = 0 THEN <<>> ELSE RowsUpTo(c, n - 1) \o Rows(c, n)

AllRows(c) == RowsUpTo(ParentOf(c), PageCount(c))

\* The identity of a yielded record: its id, or the line_item_id it was
\* renamed to.
RowId(r) == IF r.id # <<>> THEN r.id ELSE r.line_item_id

IdsOf(rs) == [i \in 1..Len(rs) |-> RowId(rs[i])]

Invoked == ppc # "idle"
Skipped == kind \in ChildKinds /\ ParentOf(ctx) = None

LastRequest == requests[Len(requests)]

C6_PageOrder ==
    (kind \in PageKinds /\ Invoked /\ ~Skipped) =>
        /\ \A i \in 1..Len(requests) :
              /\ requests[i].via = "params"
              /\ requests[i].target = Url(ParentOf(ctx), i)
              /\ (requests[i].ok /\ requests[i].rows = <<>>) => i = Len(requests)
        /\ ppc = "done" =>
              /\ Len(requests) = PageCount(ctx) + 1
              /\ LastRequest.ok /\ LastRequest.rows = <<>>
        /\ (requests # <<>> /\ LastRequest.ok /\ LastRequest.rows # <<>>) =>
              ppc \in {"rows", "yield", "request", "closed"}

\* Two pages, the first shorter than a full page, then the empty third page.
C6_Witness ==
    /\ kind \in PageKinds /\ ppc = "done"
    /\ Len(requests) = 3
    /\ Len(requests[1].rows) = 1
    /\ Len(requests[2].rows) = 2

\* C7: the records a page-number loop yields are, in order, the records of
\* the pages the server returned: at any time a prefix of them, at the end
\* all of them, each once; a top-level stream yields them unchanged.
C7_YieldsAllPages ==
    (kind \in PageKinds /\ Invoked /\ ~Skipped) =>
        LET served == SelectSeq(requests, LAMBDA r : r.ok)
            got == RowsUpTo(ParentOf(ctx), Len(served))
        IN
        /\ Len(pyielded) <= Len(got)
        /\ \A i \in 1..Len(pyielded) :
              /\ RowId(pyielded[i]) = got[i].id
              /\ kind \in TopKinds => pyielded[i] = got[i]
        /\ ppc = "done" => IdsOf(pyielded) = IdsOf(AllRows(ctx))
        /\ ppc = "request" => Len(pyielded) = Len(got)

\* Two pages of two records each, all four yielded.
C7_Witness ==
    /\ kind \in TopKinds /\ ppc = "done"
    /\ Len(pyielded) = 4
    /\ Len(requests) = 3

\* C8: every invocation on a child stream instance, the second and later
\* ones included, requests its parent's pages up to the terminal condition
\* and yields every record of every page of that parent.
C8_EveryInvocationPagesFully ==
    (kind \in ChildKinds /\ ppc = "done" /\ ~Skipped) =>
        /\ IdsOf(pyielded) = IdsOf(AllRows(ctx))
        /\ Len(requests) = IF kind \in LinkKinds
                           THEN (IF PageCount(ctx) = 0 THEN 1 ELSE PageCount(ctx))
                           ELSE PageCount(ctx) + 1
        /\ \A i \in 1..Len(requests) : requests[i].target = Url(ParentOf(ctx), i)

\* C9: every record a child stream yields carries the parent key equal to
\* the parent id of the context, whatever the API returned in that field.
C9_ForeignKey ==
    kind \in ChildKinds =>
        \A i \in 1..Len(pyielded) : pyielded[i].fk = ParentOf(ctx) /\ ctx \in ParentIds

\* A child stream that yielded a row the API returned with another parent.
C9_Witness ==
    /\ kind \in ChildKinds
    /\ Len(pyielded) >= 2
    /\ resp.rows[2].fk = "99"
    /\ pyielded[2].fk = ctx

\* C10: invoked with a context that is absent or lacks the parent key, a
\* child stream yields nothing, raises nothing and issues no request.
C10_MissingContext ==
    (kind \in ChildKinds /\ Invoked /\ ctx \in MissingContexts) =>
        /\ ppc = "done"
        /\ requests = <<>>
        /\ pyielded = <<>>

\* The second invocation on a child stream instance, its context without
\* the parent key, has returned.
C10_Witness ==
    /\ kind \in ChildKinds
    /\ ctx = "nokey"
    /\ ppc = "done"
    /\ inv_left = MaxInvocations - 2

-----------------------------------------------------------------------------
(* What a call of _update_schema did *)

\* The resource types the call visits, in the order it visits them.
VisitOrder == Iterate(EffectiveSet(resource_type_set))

RECURSIVE FieldsOf(_)
\* The definitions the server holds for these resource types, in order;
\* none for a resource type whose request fails.
FieldsOf(order) ==
    IF order = <<>> THEN <<>>
    ELSE (IF cf_defs[Head(order)].ok THEN cf_defs[Head(order)].items ELSE <<>>)
         \o FieldsOf(Tail(order))

WellFormed(f) == f.name \notin {None, ""} /\ f.type \notin {None, ""}
InTable(f) == f.type \in DOMAIN custom_field_type
Usable(f) == WellFormed(f) /\ InTable(f)

\* The shape of the first usable definition named n among fs.
FirstShape(n, fs) ==
    LET us == SelectSeq(fs, LAMBDA f : Usable(f) /\ f.name = n)
    IN IF us = <<>> THEN Absent ELSE custom_field_type[us[1].type]

\* The for loop stands at a usable definition whose name the mapping holds
\* with another shape.
AtConflict ==
    /\ spc = "fields" /\ cf_idx <= Len(cf_data)
    /\ Usable(cf_data[cf_idx])
    /\ custom_fields_properties[cf_data[cf_idx].name]
          \notin {Absent, custom_field_type[cf_data[cf_idx].type]}

\* C11: when a name already in the mapping is seen again with another
\* resolved shape, the step raises nothing, logs one conflict warning and
\* leaves the whole mapping as it was; the mapping returned holds for every
\* name the shape seen first.
C11_KeepFirstAndWarn ==
    /\ [][AtConflict =>
            /\ custom_fields_properties' = custom_fields_properties
            /\ log' = Append(log, Warning("conflict", cf_data[cf_idx].name,
                                          cf_data[cf_idx].type, Head(todo)))
            /\ spc' = "fields"]_vars
    /\ [](spc = "returned" =>
            \A n \in Names : custom_fields_properties[n] = FirstShape(n, FieldsOf(VisitOrder)))

\* "X" is a string for the resource type visited first and a boolean for a
\* later one (or the reverse): the call returned the first shape and warned.
C11_Witness ==
    /\ spc = "returned"
    /\ \E i \in 1..Len(log) :
          /\ log[i].what = "conflict" /\ log[i].name = "X"
          /\ log[i].resource # VisitOrder[1]
          /\ custom_fields_properties["X"] # custom_field_type[log[i].type]
          /\ custom_fields_properties["X"] = FirstShape("X", FieldsOf(VisitOrder))

\* C12: a call of _update_schema returns the mapping that the first call
\* with the same argument returned, whatever calls came between.
C12_Idempotent ==
    spc = "returned" =>
        /\ results[resource_type_set].n >= 1
        /\ custom_fields_properties = results[resource_type_set].map

\* The second call with the same argument returned, after a conflict on "X".
C12_Witness ==
    /\ spc = "returned"
    /\ results[resource_type_set].n = 2
    /\ custom_fields_properties["X"] # Absent
    /\ \E i \in 1..Len(log) : log[i].what = "conflict"

UnsupportedFields(fs) == SelectSeq(fs, LAMBDA f : WellFormed(f) /\ ~InTable(f))
UnsupportedWarnings == SelectSeq(log, LAMBDA w : w.what = "unsupported")

\* C13: a definition whose type is not in the table never enters the
\* mapping and gets a warning; the call does not raise; every usable
\* definition of the same answer and of the other resource types is in the
\* mapping returned.
C13_UnsupportedSkipped ==
    LET fs == FieldsOf(VisitOrder) IN
    /\ spc \in {"loop", "fields", "returned"} =>
          \A n \in Names :
              custom_fields_properties[n] \in
                  {Absent} \cup { custom_field_type[f.type] :
                                    f \in { fs[i] : i \in { j \in 1..Len(fs) :
                                                Usable(fs[j]) /\ fs[j].name = n } } }
    /\ (spc # "idle" /\ access_token = "tok" /\ EffectiveSet(resource_type_set) \subseteq resource_types)
          => spc # "error"
    /\ spc = "returned" =>
          /\ \A i \in 1..Len(fs) : Usable(fs[i]) => custom_fields_properties[fs[i].name] # Absent
          /\ Len(UnsupportedWarnings) = Len(UnsupportedFields(fs))
          /\ \A i \in 1..Len(UnsupportedWarnings) :
                /\ UnsupportedWarnings[i].name = UnsupportedFields(fs)[i].name
                /\ UnsupportedWarnings[i].type = UnsupportedFields(fs)[i].type

\* "Y" has an unsupported type and is not in the mapping returned; "X", which
\* follows it in the same answer, and "Z" of another resource type are.
C13_Witness ==
    /\ spc = "returned"
    /\ \E i \in 1..Len(log) : log[i].what = "unsupported" /\ log[i].name = "Y"
    /\ custom_fields_properties["Y"] = Absent
    /\ custom_fields_properties["X"] # Absent
    /\ custom_fields_properties["Z"] # Absent

-----------------------------------------------------------------------------
(* The sync protocol: short-circuit, errors, ordering *)

StartAnswered == calls # <<>> /\ calls[1].op = "start" /\ calls[1].ok

\* C14: when the start call reports no content, or answers without a
\* session id, the run yields no record, makes no fetch and no ack call and
\* ends normally.
C14_NoContentShortCircuit ==
    (StartAnswered /\ calls[1].sid = None) =>
        /\ pc = "done"
        /\ Len(calls) = 1
        /\ yielded = <<>>

\* A run whose start call was answered without a session has ended.
C14_Witness ==
    /\ StartAnswered
    /\ calls[1].sid = None
    /\ session = None
    /\ pc = "done"

\* C15: a failed start, fetch or ack call ends the run with the error: it is
\* the last request of the run and no record is yielded after it.
C15_ProtocolErrorsFatal ==
    \A i \in 1..Len(calls) :
        ~calls[i].ok =>
            /\ i = Len(calls)
            /\ pc = "error"
            /\ Len(yielded) = calls[i].at

\* A run that yielded a batch and whose ack call failed.
C15_Witness ==
    /\ pc = "error"
    /\ Len(calls) = 3
    /\ IsAck(calls[3]) /\ ~calls[3].ok
    /\ Len(yielded) = 2

-----------------------------------------------------------------------------
(* Retries, configuration, primary keys, page size *)

\* C16: a list_data page request is attempted at most max_tries times; after
\* an attempt that succeeds the next request is for the next page; a request
\* that failed is the last one of the invocation, which ends with the error,
\* and a third failed attempt always ends it so.
C16_BoundedRetry ==
    kind \in RetryKinds =>
        /\ tries < max_tries
        /\ tries > 0 => ppc = "request"
        /\ \A i \in 1..Len(requests) :
              /\ requests[i].attempts <= max_tries
              /\ (requests[i].ok /\ i < Len(requests)) =>
                    requests[i + 1].target.page = requests[i].target.page + 1
              /\ ~requests[i].ok => (i = Len(requests) /\ ppc = "error")
        /\ (ppc = "request" /\ tries = max_tries - 1) =>
              \A i \in 1..Len(requests) : requests[i].ok

\* Page 1 was served at the second attempt, page 2 failed three times.
C16_Witness ==
    /\ kind \in RetryKinds
    /\ ppc = "error"
    /\ Len(requests) = 2
    /\ requests[1].ok /\ requests[1].attempts = 2
    /\ ~requests[2].ok /\ requests[2].attempts = max_tries
    /\ requests[2].target.page = 2

\* C17: with the access token missing, or the device id missing where the
\* events stream requires it, the operation ends in an error and has made
\* no request.
C17_ConfigErrorsFailFast ==
    /\ (variant = "streams" /\ config_uuid = None /\ pc # "new") =>
          (pc = "error" /\ calls = <<>>)
    /\ (access_token \in {None, ""} /\ spc # "idle") =>
          (spc = "error" /\ fetched = <<>>)

\* C18: every record a non-event stream yields holds a value for every
\* field of the stream's primary_keys, the rewritten rows of the line-items
\* streams included.
C18_PrimaryKeysPresent ==
    \A i \in 1..Len(pyielded) :
        \A k \in 1..Len(primary_keys(kind)) :
            pyielded[i][primary_keys(kind)[k]] # <<>>

\* The stream of streams.py that rewrites its rows yielded two of them, each
\* with its id.
C18_Witness ==
    /\ kind \in LinkKinds
    /\ primary_keys(kind) = << "id" >>
    /\ Len(pyielded) = 2
    /\ pyielded[1].fk = ctx /\ pyielded[2].fk = ctx
    /\ pyielded[1].id # <<>> /\ pyielded[2].id # pyielded[1].id

\* C19: every list request carries per_page equal to the configured page
\* size, and 100 when none is configured.
C19_PerPageConfigured ==
    \A i \in 1..Len(requests) :
        requests[i].per_page = (IF page_size = 0 THEN 100 ELSE page_size)

-----------------------------------------------------------------------------
(* The device id *)

\* A request was just issued by SyncStream, which calls get_device_uuid for it.
SyncCalled == variant = "sync" /\ Len(calls') = Len(calls) + 1

\* C21: get_device_uuid returns the id of the state when there is one and
\* leaves the state as it is, whatever the configuration holds; else the
\* configured id, which it copies into the state; else a new id, which it
\* stores. The value returned is the state's id afterwards, and every later
\* call returns it again.
C21_ResolutionOrder ==
    /\ [][SyncCalled =>
            LET ret == calls'[Len(calls')].dev IN
            /\ state_uuid # None =>
                  (ret = state_uuid /\ state_uuid' = state_uuid /\ generated' = generated)
            /\ (state_uuid = None /\ config_uuid # None) =>
                  (ret = config_uuid /\ state_uuid' = config_uuid /\ generated' = generated)
            /\ (state_uuid = None /\ config_uuid = None) =>
                  (ret \in FreshIds /\ state_uuid' = ret /\ generated' = generated + 1)
            /\ ret = state_uuid']_vars
    /\ [](variant = "sync" =>
            \A i \in 1..Len(calls) : calls[i].dev = state_uuid /\ calls[i].dev = calls[1].dev)

\* A run whose state held "D1" while the configuration held "D2": both of its
\* requests carried "D1".
C21_Witness ==
    /\ variant = "sync"
    /\ config_uuid = "D2" /\ state_uuid = "D1"
    /\ Len(calls) >= 2
    /\ calls[1].dev = "D1" /\ calls[2].dev = "D1"

-----------------------------------------------------------------------------
(* Termination of the drain loop *)

\* C22: against a server that holds a finite backlog, gets no new event and
\* redelivers on each fetch exactly what was not acknowledged, get_records
\* eventually receives an empty fetch and ends, whatever the backlog, items
\* without ack key included.
C22_DrainTerminates ==
    <>(pc = "done" /\ session # None /\ queue_items = <<>>)

-----------------------------------------------------------------------------
(* The type table *)

\* The types of the data model.
DataModelTypes ==
    {"address", "bool", "date", "datetime", "email", "list", "multi_select_list",
     "number", "phone", "string", "text", "url"}

\* The shape each type resolves to, boolean resolving as bool does.
ExpectedShape(t) ==
    CASE t = "address" ->
           [type |-> <<"object", "null">>, format |-> None, items |-> <<>>,
            properties |-> { <<"line1", <<"string", "null">>>>,
                             <<"city", <<"string", "null">>>>,
                             <<"postal_code", <<"string", "null">>>>,
                             <<"state", <<"string", "null">>>>,
                             <<"country", <<"string", "null">>>> }]
      [] t = "multi_select_list" ->
           [type |-> <<"array", "null">>, format |-> None, items |-> <<"string">>,
            properties |-> {}]
      [] t \in {"bool", "boolean"} ->
           [type |-> <<"boolean", "null">>, format |-> None, items |-> <<>>,
            properties |-> {}]
      [] t = "datetime" ->
           [type |-> <<"string", "null">>, format |-> "date-time", items |-> <<>>,
            properties |-> {}]
      [] OTHER ->
           [type |-> <<"string", "null">>, format |-> None, items |-> <<>>,
            properties |-> {}]

\* The shape a name has when exactly the types of T are accepted: that of
\* the first well-formed definition of the name whose type is in T.
ShapeBy(T, n) ==
    LET us == SelectSeq(FieldsOf(VisitOrder),
                        LAMBDA f : WellFormed(f) /\ f.name = n /\ f.type \in T)
    IN IF us = <<>> THEN Absent ELSE ExpectedShape(us[1].type)

\* C23 as stated: a custom field is given a shape exactly when its declared
\* type is one of the twelve types of the data model, and the shape is the
\* one the table of the data model gives.
C23_TwelveTypes ==
    spc = "returned" =>
       \A n \in Names : custom_fields_properties[n] = ShapeBy(DataModelTypes, n)

\* C23, amended: a custom field is given a shape exactly when its declared
\* type is one of thirteen: the twelve of the data model and boolean, which
\* resolves as bool does; the shapes are as stated.
C23_TypeTable ==
    /\ DOMAIN custom_field_type = DataModelTypes \cup {"boolean"}
    /\ \A t \in DOMAIN custom_field_type : custom_field_type[t] = ExpectedShape(t)
    /\ \A t \in {"geo", "", None} : Resolve(t) = Unsupported
    /\ spc = "returned" =>
         \A n \in Names :
            custom_fields_properties[n] = ShapeBy(DataModelTypes \cup {"boolean"}, n)

\* A call has returned a mapping with an address, a boolean declared as
\* "boolean" and a multi-select list.
C23_Witness ==
    /\ spc = "returned"
    /\ custom_fields_properties["Z"].type = <<"object", "null">>
    /\ custom_fields_properties["Y"] = ExpectedShape("bool")
    /\ custom_fields_properties["X"].items = <<"string">>
    /\ \E i \in 1..Len(FieldsOf(VisitOrder)) :
          FieldsOf(VisitOrder)[i] = Field("Y", "boolean")
    /\ \A i \in 1..Len(FieldsOf(VisitOrder)) : FieldsOf(VisitOrder)[i].type # "bool"

-----------------------------------------------------------------------------
(* The order of the resource types *)

\* The resource types a call asks for, in the order h.
InOrder(h) == SelectSeq(h, LAMBDA r : r \in EffectiveSet(resource_type_set))

\* C24: the mapping _update_schema returns is the same for every order in
\* which the resource types are processed, conflicts included: it is the
\* one any iteration order of the set gives.
C24_OrderIndependent ==
    spc = "returned" =>
       \A h \in HashOrders : \A n \in Names :
          custom_fields_properties[n] = FirstShape(n, FieldsOf(InOrder(h)))

-----------------------------------------------------------------------------
(* A failed fetch of custom fields *)

\* The request for the custom fields of the next resource type fails.
FetchFails ==
    /\ spc = "loop" /\ todo # <<>> /\ ~cf_defs[Head(todo)].ok
    /\ fetched' = Append(fetched, Head(todo))

\* C25: a failed fetch for one resource type leaves the mapping as it was
\* and raises nothing; the resource types that remain are still fetched and
\* merged, so the call returns the merge of those whose fetch succeeded.
C25_FetchFailureLocal ==
    /\ [][FetchFails => /\ custom_fields_properties' = custom_fields_properties
                        /\ spc' = "loop"
                        /\ todo' = Tail(todo)]_vars
    /\ [](spc = "error" => fetched = <<>>)
    /\ [](spc = "returned" =>
            /\ fetched = VisitOrder
            /\ \A n \in Names :
                 custom_fields_properties[n] = FirstShape(n, FieldsOf(VisitOrder)))

\* A call has returned whose first fetch failed and whose second gave a
\* definition that is in the mapping.
C25_Witness ==
    /\ spc = "returned"
    /\ Len(fetched) >= 2
    /\ ~cf_defs[fetched[1]].ok
    /\ cf_defs[fetched[2]].ok
    /\ \E i \in 1..Len(log) : log[i].what = "fetch_error" /\ log[i].resource = fetched[1]
    /\ \E i \in 1..Len(cf_defs[fetched[2]].items) :
          LET f == cf_defs[fetched[2]].items[i]
          IN Usable(f) /\ custom_fields_properties[f.name] = custom_field_type[f.type]

-----------------------------------------------------------------------------
(* Validation of the resource types *)

Invalid(arg) == arg.given /\ ~(arg.set \subseteq resource_types)

\* C26: a call whose set holds a tag that is not a resource type ends in an
\* error before any request is made and never returns a mapping; a call
\* without a set queries all four resource types.
C26_ResourceTypesValidated ==
    /\ \A arg \in RtArgs : Invalid(arg) => results[arg].n = 0
    /\ (spc # "idle" /\ Invalid(resource_type_set)) =>
          spc = "error" /\ fetched = <<>> /\ todo = <<>>
    /\ (spc = "returned" /\ ~resource_type_set.given) =>
          /\ Len(fetched) = 4
          /\ { fetched[i] : i \in 1..Len(fetched) } =
                {"deal", "contact", "lead", "prospect_and_customer"}

\* A call with the set {deal, task} has ended in an error, a token being
\* configured, after a call without a set returned.
C26_Witness ==
    /\ spc = "error"
    /\ resource_type_set = Arg(TRUE, {"deal", "task"})
    /\ ~Falsy(access_token)
    /\ fetched = <<>>
    /\ results[Arg(FALSE, {})].n >= 1

-----------------------------------------------------------------------------
(* The page cursor *)

\* C27: within one invocation the cursors of successive requests increase
\* strictly: the page numbers 1, 2, 3, ... of a page-number loop; for link
\* pagination no token on the first request, then the paginator's tokens.
\* Once the token is None no further request is made.
C27_CursorMonotonic ==
    /\ \A i \in 1..(Len(requests) - 1) : requests[i].cursor < requests[i + 1].cursor
    /\ kind \in PageKinds => \A i \in 1..Len(requests) : requests[i].cursor = i
    /\ kind \in LinkKinds =>
          /\ \A i \in 1..Len(requests) : (requests[i].cursor = 0) <=> (i = 1)
          /\ (requests # <<>> /\ token = 0) => ppc # "request"

\* A page-number loop has asked for pages 1, 2 and 3 and ended on the
\* empty third page.
C27_Witness ==
    /\ kind = "notes"
    /\ ppc = "done"
    /\ Len(requests) = 3
    /\ requests[3].cursor = 3
    /\ requests[3].rows = <<>>
    /\ requests[2].rows # <<>>

-----------------------------------------------------------------------------
(* The first request of an invocation *)

\* C28: the first request of every invocation asks for page 1 of the
\* stream's own url, whatever pages earlier invocations on the same
\* instance reached, an abandoned invocation included.
C28_StartsAtPageOne ==
    requests # <<>> =>
       /\ requests[1].via = "params"
       /\ requests[1].target = Url(ParentOf(ctx), 1)

\* An invocation on an instance whose paginator holds the next_page_url an
\* earlier invocation left has made its first request, for page 1.
C28_Witness ==
    /\ kind \in LinkKinds
    /\ ~fresh_inst
    /\ ppc = "rows"
    /\ Len(requests) = 1
    /\ requests[1].ok
    /\ requests[1].target.page = 1
    /\ paginator.next_page_url # NoLink
    /\ paginator.current_page >= 2

-----------------------------------------------------------------------------
(* The two page loops *)

RECURSIVE LastPage(_, _)
\* The first page from n on that the server answers with no rows.
LastPage(c, n) == IF Rows(c, n) = <<>> THEN n ELSE LastPage(c, n + 1)

RECURSIVE RowsBefore(_, _)
\* The rows of the pages 1..n, in order.
RowsBefore(c, n) == IF n = 0 THEN <<>> ELSE RowsBefore(c, n - 1) \o Rows(c, n)

IsPrefix(a, b) == Len(a) <= Len(b) /\ \A i \in 1..Len(a) : a[i] = b[i]

\* C29: the loop with the finished flag (users) and the loop that breaks
\* (notes) make the same requests and yield the same records for every
\* sequence of server pages: each asks for the pages 1, 2, ... up to the
\* first empty one and no further, and yields the rows of the pages before
\* it, in order.
C29_LoopsEquivalent ==
    (kind \in {"users", "notes"} /\ ppc # "idle") =>
       LET c == ParentOf(ctx)
           last == LastPage(c, 1)
       IN /\ Len(requests) <= last
          /\ \A i \in 1..Len(requests) : requests[i].target = Url(c, i)
          /\ IsPrefix(pyielded, RowsBefore(c, last - 1))
          /\ ppc = "request" => Len(requests) < last
          /\ ppc = "done" =>
                /\ Len(requests) = last
                /\ pyielded = RowsBefore(c, last - 1)

\* The flag loop has ended after two pages of rows and the empty third.
C29_Witness ==
    /\ kind = "users"
    /\ Style(kind) = "flag"
    /\ ppc = "done"
    /\ pfinished
    /\ Len(requests) = 3
    /\ Len(pyielded) >= 2
    /\ pyielded = RowsBefore(ParentOf(ctx), 2)

-----------------------------------------------------------------------------
(* Numeric fields *)

\* What a coercion to a number makes of a value: a numeric-looking string
\* becomes the number, any other string null.
Coerced(v) ==
    IF v.kind # "str" THEN v
    ELSE IF v.text \in {"12.50"} THEN Json("num", v.text) ELSE Json("null", "")

\* C30: every record is emitted with its monetary or quantity field
\* coerced: a number where the API gave a numeric-looking string, null
\* where the string cannot be converted.
C30_NumericCoercion ==
    \A i \in 1..Len(pyielded) :
       /\ pyielded[i].value.kind \in {"num", "null"}
       /\ pyielded[i].value \in { Coerced(ApiValue(j)) : j \in 1..Len(pyielded) }

====
